---- MODULE Spec2Model ----
(***************************************************************************)
(* Verification model of Prometheus.py: the streaming conversation session *)
(* (PrometheusAI.send_message / generate_response_streaming / check_queue  *)
(* / stop_generation / load_model_dialog), and the conversation store      *)
(* (ConversationManager).                                                  *)
(*                                                                         *)
(* Text is modelled as a sequence of atoms.  An atom is a character ("a",  *)
(* "A", " ", "\n") or a literal substring the code searches for            *)
(* (a code fence, "def ", a keyword of a user message).  The code fence of *)
(* three backquotes is written "~~~".                                      *)
(***************************************************************************)
EXTENDS Integers, Sequences, FiniteSets, TLC

\* ------------------------------------------------------------------ bounds
\* Spec: generation sessions (threads started by send_message) in one behaviour
MaxSessions == 2
\* Spec: chunks the streaming completion of the model yields in one session
MaxChunks == 1
\* SpecUI: sessions, chunks of a session, conversation operations of the user
\* (new, clear, load) and seconds the clock advances
UiSessions == 2
UiChunks == 1
UiOps == 1
UiTicks == 1
\* SpecDup: sessions, one after the other, and chunks of a session
DupSessions == 2
DupChunks == 1
\* SpecLoad: model-loading threads, sessions and chunks of a session
LoadLoads == 2
LoadSessions == 1
LoadChunks == 1
StoreTicks == 1
StoreSaves == 2
BackupCorrupts == 2
OneSessions == 1
SaveSessions == 1
SaveChunks == 1
SaveSaves == 1
ShowLen == 6
OpenSessions == 1
OpenChunks == 1
OpenOps == 2
OpenTicks == 1
OneChunks == 2

Max(S) == CHOOSE x \in S : \A y \in S : y <= x
Sessions == 1..Max({MaxSessions, UiSessions, DupSessions, LoadSessions, OneSessions, SaveSessions, OpenSessions})
Loads == 1..Max({1, LoadLoads})

\* -------------------------------------------------------------------- text
IsSpace(a) == a \in {" ", "\n"}

\* str.lower(), atom by atom
LowerAtom(a) ==
  CASE a = "A" -> "a"
    [] a = "Python" -> "python"
    [] a = "Genere une image" -> "genere une image"
    [] OTHER -> a

Lower(t) == [i \in 1..Len(t) |-> LowerAtom(t[i])]

RECURSIVE LStrip(_)
LStrip(t) == IF t # <<>> /\ IsSpace(Head(t)) THEN LStrip(Tail(t)) ELSE t

RECURSIVE RStrip(_)
RStrip(t) ==
  IF t # <<>> /\ IsSpace(t[Len(t)]) THEN RStrip(SubSeq(t, 1, Len(t) - 1)) ELSE t

\* str.strip()
Strip(t) == RStrip(LStrip(t))

\* a keyword test that does not lower the text
HasKeywordExact(t, kws) == \E i \in 1..Len(t) : t[i] \in kws

\* any(keyword in text.lower() for keyword in kws)
HasKeyword(t, kws) == \E i \in 1..Len(t) : LowerAtom(t[i]) \in kws

\* "".join(seq of texts)
RECURSIVE Join(_)
Join(ts) == IF ts = <<>> THEN <<>> ELSE Head(ts) \o Join(Tail(ts))

\* text.split('\n')
RECURSIVE SplitLines(_)
SplitLines(t) ==
  IF \A i \in 1..Len(t) : t[i] # "\n" THEN <<t>>
  ELSE LET k == CHOOSE i \in 1..Len(t) : t[i] = "\n" /\ \A j \in 1..(i-1) : t[j] # "\n"
       IN <<SubSeq(t, 1, k - 1)>> \o SplitLines(SubSeq(t, k + 1, Len(t)))

\* number of characters an atom stands for
AtomLen(a) ==
  CASE a = "~~~python" -> 9
    [] a = "~~~" -> 3
    [] a = "def " -> 4
    [] a = "stats" -> 5
    [] OTHER -> 1

RECURSIVE TextLen(_)
TextLen(t) == IF t = <<>> THEN 0 ELSE AtomLen(Head(t)) + TextLen(Tail(t))

\* the python_indicators of looks_like_python_code that the alphabet can spell
PythonIndicators == {"def "}

\* twice the weight looks_like_python_code gives one line (1 or 0.5 or 0)
LineScore2(line) ==
  LET c == Strip(line)
  IN IF \E i \in 1..Len(c) : c[i] \in PythonIndicators THEN 2
     ELSE IF c # <<>> /\ c[1] # "#" /\ TextLen(c) > 3 THEN 1
     ELSE 0

RECURSIVE SumScore2(_)
SumScore2(lines) ==
  IF lines = <<>> THEN 0 ELSE LineScore2(Head(lines)) + SumScore2(Tail(lines))

looks_like_python_code(text) ==
  LET lines == SplitLines(Strip(text))
  IN IF Len(lines) < 2 THEN FALSE ELSE SumScore2(lines) >= 4

\* the fixed text generate_statistics_code returns (a fenced python block)
generate_statistics_code == <<"~~~python", "\n", "stats", "\n", "~~~">>

FormatKeywords == {"python", "code", "programme", "script", "statistique", "statistiques"}
ImageKeywords ==
  {"genere une image", "cree une image", "generer image", "stable diffusion", "dall-e"}

IsFence(a) == a \in {"~~~", "~~~python"}

\* re.findall of the pattern (fence python, whitespace, lazy group, whitespace,
\* fence) with re.DOTALL: the list of groups, cut after the first one (the only
\* one the caller reads)
FindallPythonBlock(response) ==
  LET opens == {i \in 1..Len(response) :
                  /\ response[i] = "~~~python"
                  /\ \E j \in (i+1)..Len(response) : IsFence(response[j])}
  IN IF opens = {} THEN <<>>
     ELSE LET i == CHOOSE x \in opens : \A y \in opens : x <= y
              j == CHOOSE x \in (i+1)..Len(response) :
                     IsFence(response[x]) /\ \A y \in (i+1)..(x-1) : ~IsFence(response[y])
          IN <<Strip(SubSeq(response, i + 1, j - 1))>>

format_code_response(response0, user_message) ==
  LET response == Strip(response0)
      matches == FindallPythonBlock(response)
  IN IF HasKeyword(user_message, FormatKeywords)
     THEN IF \E i \in 1..Len(response) : response[i] = "~~~python"
          THEN IF matches # <<>>
               THEN <<"~~~python", "\n">> \o Strip(matches[1]) \o <<"\n", "~~~">>
               ELSE response
          ELSE IF looks_like_python_code(response)
               THEN <<"~~~python", "\n">> \o response \o <<"\n", "~~~">>
               ELSE generate_statistics_code
     ELSE response

\* conv[-n:]
LastN(conv, n) == SubSeq(conv, IF Len(conv) > n THEN Len(conv) - n + 1 ELSE 1, Len(conv))

\* a line "Role: content" of the prompt
PromptLine(role, content) == [role |-> role, content |-> content]

PromptKeywords == {"python", "code", "programme", "script", "def ", "import "}

\* build_prompt(user_message) on the conversation conv: the lines of the prompt
build_prompt(conv, user_message) ==
  IF conv = <<>> THEN <<PromptLine("L'utilisateur dit", user_message)>>
  ELSE LET recent_messages == LastN(conv, 6)
       IN [i \in 1..Len(recent_messages) |->
             PromptLine(IF recent_messages[i].role = "user" THEN "Utilisateur"
                        ELSE "Assistant",
                        recent_messages[i].content)]
          \o <<PromptLine("Utilisateur", user_message)>>
          \o (IF HasKeyword(user_message, PromptKeywords)
              THEN <<PromptLine("Instructions", <<>>)>> ELSE <<>>)
          \o <<PromptLine("Assistant", <<>>)>>

\* is_duplicate_response(new_response) on the conversation conv
is_duplicate_response(conv, new_response) ==
  LET ai == SelectSeq(conv, LAMBDA m : m.role = "assistant")
  IN IF conv = <<>> THEN FALSE
     ELSE IF ai = <<>> THEN FALSE
     ELSE Lower(Strip(ai[Len(ai)].content)) = Lower(Strip(new_response))

\* -------------------------------------------------------------------- JSON
\* A Python value that json can write: None, str, int, list, dict.
Null == [t |-> "null"]
Str(x) == [t |-> "str", s |-> x]
Num(x) == [t |-> "num", n |-> x]
List(l) == [t |-> "list", l |-> l]
Dict(d) == [t |-> "dict", d |-> d]

\* The bytes of a file, as the tokens of a JSON text: punctuation, the literal
\* null, a string literal, a number literal, or bytes that are not UTF-8.
Pn(x) == [k |-> "p", v |-> x]
StrTok(x) == [k |-> "s", v |-> x]
NumTok(x) == [k |-> "n", v |-> x]
BadBytes == [k |-> "x", v |-> "ff"]

\* the order in which the dicts of the program hold their keys (the order of
\* insertion: lines 66-71, 1951-1956, 2052-2056)
KeyOrder == <<"id", "title", "messages", "timestamp", "role", "content">>

KeysOf(d) == SelectSeq(KeyOrder, LAMBDA key : key \in DOMAIN d)

\* json.dump(value, f, ensure_ascii=False, indent=2): the tokens written
RECURSIVE Dump(_)
RECURSIVE DumpItems(_)
RECURSIVE DumpMembers(_, _)
Dump(v) ==
  CASE v.t = "null" -> <<Pn("null")>>
    [] v.t = "str" -> <<StrTok(v.s)>>
    [] v.t = "num" -> <<NumTok(v.n)>>
    [] v.t = "list" -> <<Pn("[")>> \o DumpItems(v.l) \o <<Pn("]")>>
    [] OTHER -> <<Pn("{")>> \o DumpMembers(v.d, KeysOf(v.d)) \o <<Pn("}")>>

DumpItems(l) ==
  IF l = <<>> THEN <<>>
  ELSE IF Len(l) = 1 THEN Dump(l[1])
  ELSE Dump(l[1]) \o <<Pn(",")>> \o DumpItems(Tail(l))

DumpMembers(d, keys) ==
  IF keys = <<>> THEN <<>>
  ELSE LET one == <<StrTok(keys[1]), Pn(":")>> \o Dump(d[keys[1]])
       IN IF Len(keys) = 1 THEN one
          ELSE one \o <<Pn(",")>> \o DumpMembers(d, Tail(keys))

\* json.loads: a recursive descent over the tokens; ok is FALSE where json
\* raises JSONDecodeError
ParseFail == [ok |-> FALSE, v |-> Null, rest |-> <<>>]
ParseOk(v, rest) == [ok |-> TRUE, v |-> v, rest |-> rest]

RECURSIVE ParseValue(_)
RECURSIVE ParseItems(_, _)
RECURSIVE ParseMembers(_, _)
ParseValue(ts) ==
  IF ts = <<>> THEN ParseFail
  ELSE LET h == Head(ts)
       IN CASE h.k = "s" -> ParseOk(Str(h.v), Tail(ts))
            [] h.k = "n" -> ParseOk(Num(h.v), Tail(ts))
            [] h.k = "p" /\ h.v = "null" -> ParseOk(Null, Tail(ts))
            [] h.k = "p" /\ h.v = "[" ->
                 IF Len(ts) >= 2 /\ ts[2] = Pn("]")
                 THEN ParseOk(List(<<>>), Tail(Tail(ts)))
                 ELSE ParseItems(Tail(ts), <<>>)
            [] h.k = "p" /\ h.v = "{" ->
                 IF Len(ts) >= 2 /\ ts[2] = Pn("}")
                 THEN ParseOk(Dict(<<>>), Tail(Tail(ts)))
                 ELSE ParseMembers(Tail(ts), <<>>)
            [] OTHER -> ParseFail

\* the items of a list, after the bracket or a comma
ParseItems(ts, acc) ==
  LET r == ParseValue(ts)
  IN IF ~r.ok \/ r.rest = <<>> THEN ParseFail
     ELSE IF Head(r.rest) = Pn(",") THEN ParseItems(Tail(r.rest), Append(acc, r.v))
     ELSE IF Head(r.rest) = Pn("]") THEN ParseOk(List(Append(acc, r.v)), Tail(r.rest))
     ELSE ParseFail

\* the members of an object, after the brace or a comma; a repeated key keeps
\* its last value
ParseMembers(ts, acc) ==
  IF Len(ts) < 2 \/ ts[1].k # "s" \/ ts[2] # Pn(":") THEN ParseFail
  ELSE LET r == ParseValue(Tail(Tail(ts)))
           d == [key \in (DOMAIN acc) \cup {ts[1].v} |->
                   IF key = ts[1].v THEN r.v ELSE acc[key]]
       IN IF ~r.ok \/ r.rest = <<>> THEN ParseFail
          ELSE IF Head(r.rest) = Pn(",") THEN ParseMembers(Tail(r.rest), d)
          ELSE IF Head(r.rest) = Pn("}") THEN ParseOk(Dict(d), Tail(r.rest))
          ELSE ParseFail

\* json.loads(text): extra data after the value is an error too
json_loads(ts) ==
  LET r == ParseValue(ts)
  IN IF r.ok /\ r.rest = <<>> THEN r ELSE ParseFail

\* reading the file as UTF-8 raises UnicodeDecodeError
Undecodable(ts) == \E i \in 1..Len(ts) : ts[i].k = "x"

\* ------------------------------------------------------------ PrometheusAI
VARIABLES
  model,                    \* self.model: 0 is None, k the model load thread k built
  is_loading,
  is_generating,
  stop_generation_flag,
  response_queue,           \* queue.Queue of (message_type, data)
  current_conversation,     \* list of messages
  current_conversation_id,
  conversations,            \* self.conversations, the rows of the sidebar
  streaming_text,
  stream_chunks,            \* self._stream_chunks
  stream_dirty,             \* self._stream_dirty
  label,                    \* self.current_ai_message_label: None, alive or destroyed
  frame,                    \* self.current_streaming_frame: None, alive or destroyed
  task,                     \* the generate_response_streaming threads
  loader,                   \* the load_model_thread threads
  after_queue,              \* callbacks queued with root.after(0, ...)
  clock,                    \* int(time.time())
  files,                    \* conversations/*.json, most recently written first
  stop_btn,                 \* state of the Stop button, which calls stop_generation
  model_btn,                \* state of the button that calls load_model_dialog
  hist,                     \* history of each session (what it put, what was shown)
  env,                      \* what the user and the model may still do (the bounds)
  disk,                     \* the conversations directory: path -> file
  saver,                    \* a call of ConversationManager.save_conversation
  loaded,                   \* what the last load_conversation_file returned
  origin,                   \* the conversation a file was last saved from
  folder,                   \* the conversations directory the sidebar lists
  listbox,                  \* self.conversations_list: the rows of the sidebar
  removed,                  \* the last delete_conversation: what it found and left
  view                      \* a message handed to display_ai_message_with_code

pvars == <<model, is_loading, is_generating, stop_generation_flag, response_queue,
           current_conversation, current_conversation_id, conversations,
           streaming_text, stream_chunks, stream_dirty, label, frame, task, loader,
           after_queue, clock, files, stop_btn, model_btn, hist, env>>

dvars == <<folder, listbox, removed, view>>

svars == <<disk, saver, loaded, origin, dvars>>

\* current_conversation_id = None
NoId == -1

\* what the user types (send_message reads it from input_text): plain text,
\* a programming request, an image request
UserMessages == {<<"a">>, <<"Python", " ", "a">>, <<"Genere une image">>}

\* the text deltas a chunk of the model can carry; <<>> is a chunk without text
ChunkTexts == {<<>>, <<"a">>, <<"A", " ">>}

ImageResponse == <<"image-disclaimer">>
StoppedByUser == <<"Generation arretee par l'utilisateur">>
GenerationError == <<"Erreur lors de la generation">>

IdleTask ==
  [pc |-> "idle", user_message |-> <<>>, full_response |-> <<>>, token |-> <<>>,
   nchunks |-> 0, ai_response |-> <<>>, prompt |-> <<>>, before |-> <<>>]

\* a thread that has returned: its locals are gone
Returned == [IdleTask EXCEPT !.pc = "done"]

IdleHist ==
  [nTok |-> 0, nTerm |-> 0, afterTerm |-> FALSE, cancelled |-> FALSE,
   passed |-> FALSE, tokAfter |-> FALSE, errSeen |-> 0, termSeen |-> 0,
   shown |-> <<>>, early |-> FALSE, startedEmpty |-> FALSE,
   dupOf |-> <<>>, appended |-> <<>>, saved |-> <<>>, ended |-> <<>>,
   called |-> FALSE, raised |-> FALSE, converted |-> FALSE, msg |-> <<>>,
   newId |-> NoId, usedId |-> NoId, stopped |-> FALSE]

\* e: the bounds of the behaviour.  sessions, loads, ops, saves, ticks: how many
\* more the user (the clock) may start; chunks: the longest chunk stream; msgs, texts:
\* the user messages and chunk texts in use; patient: the user sends a message
\* only when no generation thread is alive
\* rows: the conversations load_conversations found in the directory when the
\* window was built (line 1544)
InitRows(e, rows) ==
  /\ env = e
  /\ model = 0
  /\ is_loading = FALSE
  /\ is_generating = FALSE
  /\ stop_generation_flag = FALSE
  /\ response_queue = <<>>
  /\ current_conversation = <<>>
  /\ current_conversation_id = NoId
  /\ conversations = rows
  /\ streaming_text = <<>>
  /\ stream_chunks = <<>>
  /\ stream_dirty = FALSE
  /\ label = "None"
  /\ frame = "None"
  /\ task = [s \in Sessions |-> IdleTask]
  /\ loader = [k \in Loads |-> "idle"]
  /\ after_queue = <<>>
  /\ clock = 0
  /\ files = rows
  /\ stop_btn = "disabled"
  /\ model_btn = "normal"
  /\ hist = [s \in Sessions |-> IdleHist]

InitP(e) == InitRows(e, <<>>)

\* ------------------------------------------------------- widgets and saving
\* for widget in self.scrollable_frame.winfo_children(): widget.destroy()
Destroyed(w) == IF w = "alive" THEN "dead" ELSE w

\* what ConversationManager.save_conversation can do to the file: write it,
\* fail before touching it, or fail after os.remove and before os.rename
SaveOutcomes == {"ok", "fail", "fail_removed"}

Without(fs, id) == SelectSeq(fs, LAMBDA f : f.id # id)

\* the title PrometheusAI.save_conversation computes
TitleOf(conv) ==
  LET users == SelectSeq(conv, LAMBDA m : m.role = "user")
  IN IF users = <<>> THEN <<"Nouvelle discussion">> ELSE users[1].content

\* PrometheusAI.save_conversation then load_conversations: the new
\* current_conversation_id, files and sidebar rows
GuiSave(conv, id, now, fs, rows, outcome) ==
  IF conv = <<>> THEN [id |-> id, files |-> fs, conversations |-> rows]
  ELSE LET id2 == IF id = NoId THEN now ELSE id
           data == [id |-> id2, title |-> TitleOf(conv), messages |-> conv]
           fs2 == CASE outcome = "ok" -> <<data>> \o Without(fs, id2)
                    [] outcome = "fail_removed" -> Without(fs, id2)
                    [] OTHER -> fs
       IN [id |-> id2, files |-> fs2, conversations |-> fs2]

\* ---------------------------------------------------------- the UI thread
FreeSessions == {s \in Sessions : task[s].pc = "idle"}

\* the threads of generate_response_streaming that have been started and
\* have not returned
Running(s) == task[s].pc \notin {"idle", "done"}

\* the session is consuming the chunks of the model (lines 955-977)
Streaming(s) == task[s].pc \in {"loop", "l977"}

\* the thread of s has executed line 924 and not yet its own line 939, 1003 or 1010
Generating(s) ==
  task[s].pc \in {"l925", "l926", "l939", "loop", "l977", "l979", "l983", "l990",
                  "l991", "l1003", "except", "l1010"}

send_message(msg, outcome) ==
  /\ ~(is_loading \/ model = 0 \/ is_generating)
  /\ env.sessions > 0
  /\ env.patient => \A x \in Sessions : ~Running(x)
  /\ env' = [env EXCEPT !.sessions = @ - 1]
  /\ LET s == CHOOSE x \in FreeSessions : \A y \in FreeSessions : x <= y
         fresh == current_conversation = <<>>
         id1 == IF fresh THEN clock ELSE current_conversation_id
         conv1 == Append(current_conversation, [role |-> "user", content |-> msg])
         sv == GuiSave(conv1, id1, clock, files, conversations, outcome)
     IN /\ current_conversation' = conv1
        /\ current_conversation_id' = sv.id
        /\ files' = sv.files
        /\ conversations' = sv.conversations
        /\ label' = "alive"
        /\ frame' = "alive"
        /\ stop_btn' = "normal"
        /\ task' = [task EXCEPT ![s] = [IdleTask EXCEPT !.pc = "start",
                                                        !.user_message = msg,
                                                        !.before = current_conversation]]
        /\ hist' = [hist EXCEPT ![s].startedEmpty =
                                   streaming_text = <<>> /\ stream_chunks = <<>>,
                                 ![s].msg = msg,
                                 ![s].newId = IF fresh THEN clock ELSE NoId,
                                 ![s].usedId = sv.id]
  /\ UNCHANGED <<model_btn, model, is_loading, is_generating, stop_generation_flag,
                 response_queue, streaming_text, stream_chunks, stream_dirty, loader,
                 after_queue, clock, svars>>

\* a stop_generation without the test of line 1743
stop_generation_unguarded ==
  /\ stop_btn = "normal"
  /\ IF TRUE
     THEN /\ stop_generation_flag' = TRUE
          /\ is_generating' = FALSE
          /\ stop_btn' = "disabled"
          /\ hist' = [s \in Sessions |->
                        [hist[s] EXCEPT !.cancelled = @ \/ Streaming(s),
                                        !.stopped = @ \/ Generating(s)]]
     ELSE UNCHANGED <<stop_generation_flag, is_generating, hist, stop_btn>>
  /\ UNCHANGED <<env, model_btn, model, is_loading, response_queue, current_conversation,
                 current_conversation_id, conversations, streaming_text, stream_chunks,
                 stream_dirty, label, frame, task, loader, after_queue, clock, files,
                 svars>>

stop_generation ==
  /\ stop_btn = "normal"
  /\ IF is_generating
     THEN /\ stop_generation_flag' = TRUE
          /\ is_generating' = FALSE
          /\ stop_btn' = "disabled"
          /\ hist' = [s \in Sessions |->
                        [hist[s] EXCEPT !.cancelled = @ \/ Streaming(s),
                                        !.stopped = @ \/ Generating(s)]]
     ELSE UNCHANGED <<stop_generation_flag, is_generating, hist, stop_btn>>
  /\ UNCHANGED <<env, model_btn, model, is_loading, response_queue, current_conversation,
                 current_conversation_id, conversations, streaming_text, stream_chunks,
                 stream_dirty, label, frame, task, loader, after_queue, clock, files,
                 svars>>

Datas(chunks) == [i \in 1..Len(chunks) |-> chunks[i].data]

\* the tokens of session s among chunks, as their numbers
RECURSIVE TokensOf(_, _)
TokensOf(chunks, s) ==
  IF chunks = <<>> THEN <<>>
  ELSE (IF Head(chunks).sid = s THEN <<Head(chunks).n>> ELSE <<>>)
       \o TokensOf(Tail(chunks), s)

\* streaming_text += "".join(self._stream_chunks); self._stream_chunks.clear()
Flush(st) ==
  [st EXCEPT !.text = st.text \o Join(Datas(st.chunks)),
             !.chunks = <<>>,
             !.dirty = FALSE,
             !.h = [s \in Sessions |->
                      [st.h[s] EXCEPT !.shown = st.h[s].shown \o TokensOf(st.chunks, s)]]]

\* one iteration of the while loop of check_queue, on the message m
Handle(st, m) ==
  CASE m.type = "stream_token" ->
         [st EXCEPT !.chunks = Append(st.chunks, m), !.dirty = TRUE]
    [] m.type = "stream_end" ->
         LET f == IF st.dirty THEN Flush(st) ELSE st
         IN [f EXCEPT !.stop = "disabled",
                      !.frame = IF f.frame = "alive" THEN "None" ELSE f.frame,
                      !.label = "None",
                      !.text = <<>>,
                      !.h[m.sid].termSeen = f.h[m.sid].termSeen + 1,
                      !.h[m.sid].early =
                         f.h[m.sid].early \/ TokensOf(f.chunks, m.sid) # <<>>]
    [] OTHER ->
         [st EXCEPT !.stop = "disabled",
                    !.h[m.sid].termSeen = st.h[m.sid].termSeen + 1,
                    !.h[m.sid].errSeen = st.h[m.sid].errSeen + 1,
                    !.h[m.sid].early =
                       st.h[m.sid].early \/ TokensOf(st.chunks, m.sid) # <<>>]

RECURSIVE Drain(_, _)
Drain(st, q) == IF q = <<>> THEN st ELSE Drain(Handle(st, Head(q)), Tail(q))

check_queue ==
  LET st0 == [text |-> streaming_text, chunks |-> stream_chunks, dirty |-> stream_dirty,
              label |-> label, frame |-> frame, stop |-> stop_btn, h |-> hist]
      st1 == Drain(st0, response_queue)
      st2 == IF st1.dirty /\ st1.label = "alive" THEN Flush(st1) ELSE st1
  IN /\ response_queue' = <<>>
     /\ streaming_text' = st2.text
     /\ stream_chunks' = st2.chunks
     /\ stream_dirty' = st2.dirty
     /\ label' = st2.label
     /\ frame' = st2.frame
     /\ hist' = st2.h
     /\ stop_btn' = st2.stop
     /\ UNCHANGED <<env, model_btn, model, is_loading, is_generating, stop_generation_flag,
                    current_conversation, current_conversation_id, conversations, task,
                    loader, after_queue, clock, files, svars>>

new_conversation ==
  /\ env.ops > 0
  /\ env' = [env EXCEPT !.ops = @ - 1]
  /\ current_conversation' = <<>>
  /\ current_conversation_id' = NoId
  /\ label' = Destroyed(label)
  /\ frame' = Destroyed(frame)
  /\ UNCHANGED <<stop_btn, model_btn, model, is_loading, is_generating, stop_generation_flag, response_queue,
                 conversations, streaming_text, stream_chunks, stream_dirty, task, loader,
                 after_queue, clock, files, hist, svars>>

clear_conversation ==
  /\ env.ops > 0
  /\ env' = [env EXCEPT !.ops = @ - 1]
  /\ current_conversation # <<>>
  /\ current_conversation' = <<>>
  /\ current_conversation_id' = NoId
  /\ label' = Destroyed(label)
  /\ frame' = Destroyed(frame)
  /\ UNCHANGED <<stop_btn, model_btn, model, is_loading, is_generating, stop_generation_flag, response_queue,
                 conversations, streaming_text, stream_chunks, stream_dirty, task, loader,
                 after_queue, clock, files, hist, svars>>

load_conversation(i) ==
  LET conversation == conversations[i]
      hasAi == \E j \in 1..Len(conversation.messages) :
                 conversation.messages[j].role # "user"
  IN /\ env.ops > 0
     /\ env' = [env EXCEPT !.ops = @ - 1]
     /\ current_conversation' = conversation.messages
     /\ current_conversation_id' = conversation.id
     /\ frame' = Destroyed(frame)
     /\ label' = IF hasAi THEN "None" ELSE Destroyed(label)
     /\ streaming_text' = IF hasAi THEN <<>> ELSE streaming_text
     /\ UNCHANGED <<stop_btn, model_btn, model, is_loading, is_generating, stop_generation_flag,
                    response_queue, conversations, stream_chunks, stream_dirty, task,
                    loader, after_queue, clock, files, hist, svars>>

load_model_dialog ==
  /\ model_btn = "normal"
  /\ ~is_loading
  /\ model_btn' = "disabled"
  /\ env.loads > 0
  /\ env' = [env EXCEPT !.loads = @ - 1]
  /\ \E k \in Loads :
       /\ loader[k] = "idle"
       /\ \A j \in Loads : j < k => loader[j] # "idle"
       /\ loader' = [loader EXCEPT ![k] = "start"]
  /\ UNCHANGED <<stop_btn, model, is_loading, is_generating, stop_generation_flag,
                 response_queue, current_conversation, current_conversation_id,
                 conversations, streaming_text, stream_chunks, stream_dirty, label, frame,
                 task, after_queue, clock, files, hist, svars>>

\* on_model_loaded and on_model_error, run by the Tk main loop
on_model_callback ==
  /\ after_queue # <<>>
  /\ after_queue' = Tail(after_queue)
  /\ is_loading' = FALSE
  /\ model_btn' = "normal"
  /\ stop_btn' = "disabled"
  /\ UNCHANGED <<env, model, is_generating, stop_generation_flag, response_queue,
                 current_conversation, current_conversation_id, conversations,
                 streaming_text, stream_chunks, stream_dirty, label, frame, task, loader,
                 clock, files, hist, svars>>

Tick ==
  /\ env.ticks > 0
  /\ env' = [env EXCEPT !.ticks = @ - 1]
  /\ clock' = clock + 1
  /\ UNCHANGED <<stop_btn, model_btn, model, is_loading, is_generating, stop_generation_flag, response_queue,
                 current_conversation, current_conversation_id, conversations,
                 streaming_text, stream_chunks, stream_dirty, label, frame, task, loader,
                 after_queue, files, hist, svars>>

\* ------------------------------------- the generate_response_streaming thread
\* self.response_queue.put((type, data)) by session s; n numbers its tokens
Put(type, data, s) ==
  /\ response_queue' =
       Append(response_queue,
              [type |-> type, data |-> data, sid |-> s,
               n |-> IF type = "stream_token" THEN hist[s].nTok + 1 ELSE 0])
  /\ hist' = [hist EXCEPT
       ![s].nTok = IF type = "stream_token" THEN @ + 1 ELSE @,
       ![s].nTerm = IF type = "stream_token" THEN @ ELSE @ + 1,
       ![s].afterTerm = @ \/ hist[s].nTerm > 0,
       ![s].tokAfter = @ \/ (type = "stream_token" /\ hist[s].passed),
       ![s].ended = IF type = "stream_end" THEN Append(@, data) ELSE @,
       ![s].converted = @ \/ (type = "error" /\ hist[s].raised)]

SetPc(s, pc) == task' = [task EXCEPT ![s].pc = pc]

\* line 924
TaskBegin(s) ==
  /\ task[s].pc = "start"
  /\ is_generating' = TRUE
  /\ SetPc(s, "l925")
  /\ UNCHANGED <<env, stop_btn, model_btn, model, is_loading, stop_generation_flag, response_queue,
                 current_conversation, current_conversation_id, conversations,
                 streaming_text, stream_chunks, stream_dirty, label, frame, loader,
                 after_queue, clock, files, hist, svars>>

\* line 925
TaskResetFlag(s) ==
  /\ task[s].pc = "l925"
  /\ stop_generation_flag' = FALSE
  /\ SetPc(s, "l926")
  /\ UNCHANGED <<env, stop_btn, model_btn, model, is_loading, is_generating, response_queue,
                 current_conversation, current_conversation_id, conversations,
                 streaming_text, stream_chunks, stream_dirty, label, frame, loader,
                 after_queue, clock, files, hist, svars>>

\* lines 926-951: the image request is answered at once; otherwise
\* create_completion returns the chunk stream or raises
TaskPrompt(s) ==
  /\ task[s].pc = "l926"
  /\ IF HasKeyword(task[s].user_message, ImageKeywords)
     THEN /\ Put("stream_end", ImageResponse, s)
          /\ task' = [task EXCEPT
               ![s].pc = "l939",
               ![s].prompt = build_prompt(current_conversation, task[s].user_message)]
     ELSE /\ \E raised \in env.raises :
               /\ task' = [task EXCEPT
                    ![s].pc = IF raised THEN "except" ELSE "loop",
                    ![s].prompt = build_prompt(current_conversation,
                                               task[s].user_message)]
               /\ hist' = [hist EXCEPT ![s].called = TRUE, ![s].raised = @ \/ raised]
          /\ UNCHANGED response_queue
  /\ UNCHANGED <<env, stop_btn, model_btn, model, is_loading, is_generating, stop_generation_flag,
                 current_conversation, current_conversation_id, conversations,
                 streaming_text, stream_chunks, stream_dirty, label, frame, loader,
                 after_queue, clock, files, svars>>

\* lines 955-973: the stream is exhausted, or the model raises, or it yields a
\* chunk and the flag is read
TaskNextChunk(s) ==
  /\ task[s].pc = "loop"
  /\ \/ /\ SetPc(s, "l979")
        /\ UNCHANGED <<response_queue, hist>>
     \/ /\ TRUE \in env.raises
        /\ SetPc(s, "except")
        /\ hist' = [hist EXCEPT ![s].raised = TRUE]
        /\ UNCHANGED response_queue
     \/ /\ task[s].nchunks < env.chunks
        /\ \E token \in env.texts :
             IF stop_generation_flag
             THEN /\ Put("error", StoppedByUser, s)
                  /\ task' = [task EXCEPT ![s].pc = "l979", ![s].nchunks = @ + 1]
             ELSE /\ task' = [task EXCEPT ![s].pc = IF token # <<>> THEN "l977" ELSE "loop",
                                          ![s].nchunks = @ + 1,
                                          ![s].token = token]
                  /\ hist' = [hist EXCEPT ![s].passed = @ \/ hist[s].cancelled]
                  /\ UNCHANGED response_queue
  /\ UNCHANGED <<env, stop_btn, model_btn, model, is_loading, is_generating, stop_generation_flag,
                 current_conversation, current_conversation_id, conversations,
                 streaming_text, stream_chunks, stream_dirty, label, frame, loader,
                 after_queue, clock, files, svars>>

\* lines 975-977
TaskPutToken(s) ==
  /\ task[s].pc = "l977"
  /\ Put("stream_token", task[s].token, s)
  /\ task' = [task EXCEPT ![s].pc = "loop",
                          ![s].full_response = @ \o task[s].token,
                          ![s].token = <<>>]
  /\ UNCHANGED <<env, stop_btn, model_btn, model, is_loading, is_generating, stop_generation_flag,
                 current_conversation, current_conversation_id, conversations,
                 streaming_text, stream_chunks, stream_dirty, label, frame, loader,
                 after_queue, clock, files, svars>>

\* line 979
TaskAfterLoop(s) ==
  /\ task[s].pc = "l979"
  /\ SetPc(s, IF stop_generation_flag THEN "l1003" ELSE "l983")
  /\ UNCHANGED <<env, stop_btn, model_btn, model, is_loading, is_generating, stop_generation_flag, response_queue,
                 current_conversation, current_conversation_id, conversations,
                 streaming_text, stream_chunks, stream_dirty, label, frame, loader,
                 after_queue, clock, files, hist, svars>>

\* the text lines 980-999 append: the formatted response, or the fallback
\* snippet when it is empty or a duplicate
FinalText(conv, full_response, user_message) ==
  LET ai_response == format_code_response(Strip(full_response), user_message)
  IN IF ai_response # <<>> /\ ~is_duplicate_response(conv, ai_response)
     THEN ai_response
     ELSE generate_statistics_code

\* lines 980-988 and 994-999: the assistant message is appended, or the
\* formatting or the duplicate test raises
TaskFinalize(s) ==
  /\ task[s].pc = "l983"
  /\ \/ LET ai_response == format_code_response(Strip(task[s].full_response),
                                                task[s].user_message)
            text == FinalText(current_conversation, task[s].full_response,
                              task[s].user_message)
        IN /\ current_conversation' =
                Append(current_conversation, [role |-> "assistant", content |-> text])
           /\ task' = [task EXCEPT ![s].pc = "l990", ![s].ai_response = text]
           /\ hist' = [hist EXCEPT
                ![s].appended = Append(@, text),
                ![s].dupOf = IF ai_response # <<>>
                                /\ is_duplicate_response(current_conversation, ai_response)
                             THEN Append(@, ai_response) ELSE @]
     \/ /\ TRUE \in env.raises
        /\ SetPc(s, "except")
        /\ hist' = [hist EXCEPT ![s].raised = TRUE]
        /\ UNCHANGED current_conversation
  /\ UNCHANGED <<env, stop_btn, model_btn, model, is_loading, is_generating,
                 stop_generation_flag, response_queue, current_conversation_id,
                 conversations, streaming_text, stream_chunks, stream_dirty, label,
                 frame, loader, after_queue, clock, files, svars>>

\* a save that takes the appended message back when the file was not written
TaskSaveRollback(s) ==
  /\ task[s].pc = "l990"
  /\ \E outcome \in env.outcomes, raised \in env.raises :
       LET sv == GuiSave(current_conversation, current_conversation_id, clock, files,
                         conversations, outcome)
       IN /\ current_conversation_id' = sv.id
          /\ files' = sv.files
          /\ conversations' = IF raised /\ current_conversation # <<>> THEN <<>>
                              ELSE sv.conversations
          /\ current_conversation' =
               IF outcome = "ok" \/ current_conversation = <<>> THEN current_conversation
               ELSE SubSeq(current_conversation, 1, Len(current_conversation) - 1)
          /\ SetPc(s, IF raised /\ current_conversation # <<>> THEN "except" ELSE "l991")
          /\ hist' = [hist EXCEPT
               ![s].saved =
                  IF outcome = "ok" /\ current_conversation # <<>>
                  THEN Append(@, [id |-> sv.id, messages |-> current_conversation])
                  ELSE @,
               ![s].raised = @ \/ (raised /\ current_conversation # <<>>)]
  /\ UNCHANGED <<env, stop_btn, model_btn, model, is_loading, is_generating,
                 stop_generation_flag, response_queue, streaming_text, stream_chunks,
                 stream_dirty, label, frame, loader, after_queue, clock, svars>>

\* lines 990 and 1000: self.save_conversation() on the background thread; its
\* Tk calls (load_conversations) can raise there, after the file was written
TaskSave(s) ==
  /\ task[s].pc = "l990"
  /\ \E outcome \in env.outcomes, raised \in env.raises :
       LET sv == GuiSave(current_conversation, current_conversation_id, clock, files,
                         conversations, outcome)
       IN /\ current_conversation_id' = sv.id
          /\ files' = sv.files
          /\ conversations' = IF raised /\ current_conversation # <<>> THEN <<>>
                              ELSE sv.conversations
          /\ SetPc(s, IF raised /\ current_conversation # <<>> THEN "except" ELSE "l991")
          /\ hist' = [hist EXCEPT
               ![s].saved =
                  IF outcome = "ok" /\ current_conversation # <<>>
                  THEN Append(@, [id |-> sv.id, messages |-> current_conversation])
                  ELSE @,
               ![s].raised = @ \/ (raised /\ current_conversation # <<>>)]
  /\ UNCHANGED <<env, stop_btn, model_btn, model, is_loading, is_generating, stop_generation_flag, response_queue,
                 current_conversation, streaming_text, stream_chunks, stream_dirty, label,
                 frame, loader, after_queue, clock, svars>>

\* lines 991 and 1001
TaskPutEnd(s) ==
  /\ task[s].pc = "l991"
  /\ Put("stream_end", task[s].ai_response, s)
  /\ SetPc(s, "l1003")
  /\ UNCHANGED <<env, stop_btn, model_btn, model, is_loading, is_generating, stop_generation_flag,
                 current_conversation, current_conversation_id, conversations,
                 streaming_text, stream_chunks, stream_dirty, label, frame, loader,
                 after_queue, clock, files, svars>>

\* an except clause that swallows the exception without a message
TaskExceptSilent(s) ==
  /\ task[s].pc = "except"
  /\ SetPc(s, "l1010")
  /\ UNCHANGED <<env, stop_btn, model_btn, model, is_loading, is_generating,
                 stop_generation_flag, response_queue, current_conversation,
                 current_conversation_id, conversations, streaming_text,
                 stream_chunks, stream_dirty, label, frame, loader, after_queue,
                 clock, files, hist, svars>>

\* line 1009
TaskExcept(s) ==
  /\ task[s].pc = "except"
  /\ Put("error", GenerationError, s)
  /\ SetPc(s, "l1010")
  /\ UNCHANGED <<env, stop_btn, model_btn, model, is_loading, is_generating, stop_generation_flag,
                 current_conversation, current_conversation_id, conversations,
                 streaming_text, stream_chunks, stream_dirty, label, frame, loader,
                 after_queue, clock, files, svars>>

\* a thread that returns without clearing is_generating
TaskKeepGenerating(s) ==
  /\ task[s].pc \in {"l939", "l1003", "l1010"}
  /\ task' = [task EXCEPT ![s] =
       CASE task[s].pc = "l939" -> Returned
         [] task[s].pc = "l1003" -> [@ EXCEPT !.pc = "l1004"]
         [] OTHER -> [@ EXCEPT !.pc = "l1011"]]
  /\ UNCHANGED <<env, stop_btn, model_btn, model, is_loading, is_generating,
                 stop_generation_flag, response_queue, current_conversation,
                 current_conversation_id, conversations, streaming_text,
                 stream_chunks, stream_dirty, label, frame, loader, after_queue,
                 clock, files, hist, svars>>

\* lines 939, 1003 and 1010
TaskClearGenerating(s) ==
  /\ task[s].pc \in {"l939", "l1003", "l1010"}
  /\ is_generating' = FALSE
  /\ task' = [task EXCEPT ![s] =
       CASE task[s].pc = "l939" -> Returned
         [] task[s].pc = "l1003" -> [@ EXCEPT !.pc = "l1004"]
         [] OTHER -> [@ EXCEPT !.pc = "l1011"]]
  /\ UNCHANGED <<env, stop_btn, model_btn, model, is_loading, stop_generation_flag, response_queue,
                 current_conversation, current_conversation_id, conversations,
                 streaming_text, stream_chunks, stream_dirty, label, frame, loader,
                 after_queue, clock, files, hist, svars>>

\* lines 1004 and 1011
TaskClearFlag(s) ==
  /\ task[s].pc \in {"l1004", "l1011"}
  /\ stop_generation_flag' = FALSE
  /\ task' = [task EXCEPT ![s] = Returned]
  /\ UNCHANGED <<env, stop_btn, model_btn, model, is_loading, is_generating, response_queue,
                 current_conversation, current_conversation_id, conversations,
                 streaming_text, stream_chunks, stream_dirty, label, frame, loader,
                 after_queue, clock, files, hist, svars>>

\* ------------------------------------------------- the load_model_thread
\* line 789
LoadBegin(k) ==
  /\ loader[k] = "start"
  /\ is_loading' = TRUE
  /\ loader' = [loader EXCEPT ![k] = "l822"]
  /\ UNCHANGED <<env, stop_btn, model_btn, model, is_generating, stop_generation_flag, response_queue,
                 current_conversation, current_conversation_id, conversations,
                 streaming_text, stream_chunks, stream_dirty, label, frame, task,
                 after_queue, clock, files, hist, svars>>

\* lines 791-832: Llama(...) builds the model, or something raises
LoadModel(k) ==
  /\ loader[k] = "l822"
  /\ \/ /\ model' = k
        /\ loader' = [loader EXCEPT ![k] = "l842"]
     \/ /\ loader' = [loader EXCEPT ![k] = "l845"]
        /\ UNCHANGED model
  /\ UNCHANGED <<env, stop_btn, model_btn, is_loading, is_generating, stop_generation_flag, response_queue,
                 current_conversation, current_conversation_id, conversations,
                 streaming_text, stream_chunks, stream_dirty, label, frame, task,
                 after_queue, clock, files, hist, svars>>

\* lines 842 and 845: root.after(0, ...) and the thread returns
LoadEnd(k) ==
  /\ loader[k] \in {"l842", "l845"}
  /\ after_queue' = Append(after_queue,
                           IF loader[k] = "l842" THEN "on_model_loaded" ELSE "on_model_error")
  /\ loader' = [loader EXCEPT ![k] = "done"]
  /\ UNCHANGED <<env, stop_btn, model_btn, model, is_loading, is_generating, stop_generation_flag, response_queue,
                 current_conversation, current_conversation_id, conversations,
                 streaming_text, stream_chunks, stream_dirty, label, frame, task,
                 clock, files, hist, svars>>

Loading(k) == loader[k] \notin {"idle", "done"}

\* ------------------------------------------------------------ specification
\* ------------------------------------------------------ ConversationManager
\* os.path.join(self.conversations_dir, f"{conversation['id']}.json")
MainPath(name) == [name |-> name, kind |-> "json", t |-> 0]

\* temp_path = f"{file_path}.tmp"
TempPath(p) == [p EXCEPT !.kind = "tmp"]

\* backup_path = f"{file_path}.backup_{int(time.time())}"
BackupPath(p, now) == [p EXCEPT !.kind = "backup", !.t = now]

StoreNames == {"conv_1"}

Paths ==
  {MainPath(n) : n \in StoreNames} \cup {TempPath(MainPath(n)) : n \in StoreNames}
    \cup {BackupPath(MainPath(n), now) : n \in StoreNames, now \in 0..StoreTicks}

Absent == [exists |-> FALSE, bytes |-> <<>>]
File(bytes) == [exists |-> TRUE, bytes |-> bytes]

\* datetime.now().isoformat()
isoformat(now) == "t" \o ToString(now)

Prefixes(ts) == {SubSeq(ts, 1, n) : n \in 0..Len(ts)}

\* what a write that stops early leaves of a text: nothing, a half, all of it
Parts(ts) == {SubSeq(ts, 1, n) : n \in {0, Len(ts) \div 2, Len(ts)}}

\* "Conversation reparee" stands for the title of lines 68
create_default_conversation(p, now) ==
  Dict([id |-> Str(p.name), title |-> Str("Conversation reparee"),
        messages |-> List(<<>>), timestamp |-> Str(isoformat(now))])

\* repair_json_file(file_path); renameOk: os.rename to the backup path succeeds
repair_json_file(d, p, now, renameOk) ==
  LET default == [raised |-> FALSE, data |-> create_default_conversation(p, now),
                  disk |-> d]
  IN IF ~d[p].exists \/ Undecodable(d[p].bytes) THEN default
     ELSE IF d[p].bytes = <<>> THEN default
     ELSE LET r == json_loads(d[p].bytes)
          IN IF r.ok THEN [raised |-> FALSE, data |-> r.v, disk |-> d]
             ELSE IF renameOk
             THEN [default EXCEPT
                     !.disk = [d EXCEPT ![BackupPath(p, now)] = d[p], ![p] = Absent]]
             ELSE default

\* the loop of lines 84-87 over required_fields
FillFields(data, default) ==
  [key \in (DOMAIN data) \cup {"id", "title", "messages"} |->
     IF key \in DOMAIN data THEN data[key] ELSE default[key]]

\* lines 95-98 for one message
IsMessage(msg) == msg.t = "dict" /\ {"role", "content"} \subseteq DOMAIN msg.d

\* a cleaning that stamps every message anew, whatever timestamp it has
CleanMessageStampAll(msg, now) ==
  Dict([key \in (DOMAIN msg.d) \cup {"timestamp"} |->
          IF key = "timestamp" THEN Str(isoformat(now)) ELSE msg.d[key]])

CleanMessage(msg, now) ==
  IF "timestamp" \in DOMAIN msg.d /\ msg.d.timestamp.t = "str" THEN msg
  ELSE Dict([key \in (DOMAIN msg.d) \cup {"timestamp"} |->
               IF key = "timestamp" THEN Str(isoformat(now)) ELSE msg.d[key]])

RECURSIVE CleanMessages(_, _)
CleanMessages(msgs, now) ==
  IF msgs = <<>> THEN <<>>
  ELSE IF IsMessage(Head(msgs))
  THEN <<CleanMessage(Head(msgs), now)>> \o CleanMessages(Tail(msgs), now)
  ELSE CleanMessages(Tail(msgs), now)

\* load_conversation_file(file_path): raised is an exception that escapes it
load_conversation_file(d, p, now, renameOk) ==
  IF ~d[p].exists THEN [raised |-> TRUE, data |-> Null, disk |-> d]
  ELSE IF Undecodable(d[p].bytes) THEN repair_json_file(d, p, now, renameOk)
  ELSE LET r == json_loads(d[p].bytes)
       IN IF ~r.ok THEN repair_json_file(d, p, now, renameOk)
          ELSE IF r.v.t # "dict" THEN repair_json_file(d, p, now, renameOk)
          ELSE LET data == FillFields(r.v.d, create_default_conversation(p, now).d)
                   messages == IF data.messages.t # "list" THEN List(<<>>)
                               ELSE List(CleanMessages(data.messages.l, now))
               IN [raised |-> FALSE,
                   data |-> Dict([data EXCEPT !.messages = messages]),
                   disk |-> d]

\* a message of lines 2052-2056 and 985-989; a conversation of lines 1951-1956
Message(role, content, ts) ==
  Dict([role |-> Str(role), content |-> Str(content), timestamp |-> Str(ts)])

Conversation(id, title, messages, ts) ==
  Dict([id |-> Str(id), title |-> Str(title), messages |-> List(messages),
        timestamp |-> Str(ts)])

\* the conversations handed to save_conversation: what the window saves, and one
\* whose message has no timestamp
SaveConvs ==
  {Conversation("conv_1", "a...", <<Message("user", "a", "t0")>>, "t0"),
   Conversation("conv_1", "a...",
                <<Message("user", "a", "t0"), Message("assistant", "b", "t0")>>, "t0"),
   Conversation("conv_1", "a...",
                <<Dict([role |-> Str("user"), content |-> Str("a")])>>, "t0")}

\* the JSON texts a conversation file can hold
JsonSamples ==
  {Conversation("conv_1", "a...", <<Message("user", "a", "t0")>>, "t0"),
   Dict([id |-> Str("conv_1")]),
   Dict([id |-> Null, title |-> Str("a..."), messages |-> List(<<>>)]),
   Dict([id |-> Str("conv_1"), title |-> Null, messages |-> Str("a")]),
   Dict([id |-> Str("conv_1"), title |-> Str("a..."),
         messages |-> List(<<Message("user", "a", "t0"),
                             Str("a"),
                             Dict([role |-> Str("user")]),
                             Dict([role |-> Str("user"), content |-> Str("a")]),
                             Dict([role |-> Str("assistant"), content |-> Null,
                                   timestamp |-> Num("1")])>>)]),
   List(<<>>), Null, Num("1"), Str("a")}

\* every content of a conversation file: JSON texts, texts cut short (the empty
\* file is one), a text that is no JSON, bytes that are no text
FileContents ==
  {Dump(v) : v \in JsonSamples}
    \cup Prefixes(Dump(Conversation("conv_1", "a...",
                                    <<Message("user", "a", "t0")>>, "t0")))
    \cup {<<Pn("}")>>, <<BadBytes>>}

\* ---------------------------------------------------------------- display
\* In the messages handed to the display the three backquotes are the atom "~~~"
\* and "w" is a word character; "def " is the word def and a space; text
\* positions count atoms.
IsWord(a) == a = "w"

\* the length of the longest run of word characters, of whitespace, from i on
RECURSIVE WordRun(_, _)
WordRun(t, i) == IF i <= Len(t) /\ IsWord(t[i]) THEN 1 + WordRun(t, i + 1) ELSE 0

RECURSIVE SpaceRun(_, _)
SpaceRun(t, i) == IF i <= Len(t) /\ IsSpace(t[i]) THEN 1 + SpaceRun(t, i + 1) ELSE 0

\* the fenced-block pattern of line 2238 tried at position i: three backquotes,
\* the word that follows as the language, whitespace up to its last newline, the
\* shortest text up to the next three backquotes
MatchAt(t, i) ==
  LET nw == WordRun(t, i + 1)
                 + (IF i + 1 + WordRun(t, i + 1) <= Len(t)
                       /\ t[i + 1 + WordRun(t, i + 1)] = "def " THEN 1 ELSE 0)
      ns == SpaceRun(t, i + 1 + nw)
      nls == {k \in (i + 1 + nw)..(i + nw + ns) : t[k] = "\n"}
      nl == CHOOSE k \in nls : \A x \in nls : x <= k
      closes == {j \in (nl + 1)..Len(t) : t[j] = "~~~"}
      j == CHOOSE x \in closes : \A y \in closes : x <= y
  IN IF i > Len(t) \/ t[i] # "~~~" THEN [ok |-> FALSE]
     ELSE IF nls = {} THEN [ok |-> FALSE]
     ELSE IF closes = {} THEN [ok |-> FALSE]
     ELSE [ok |-> TRUE,
           lang |-> IF nw = 0 THEN <<"text">> ELSE SubSeq(t, i + 1, i + nw),
           code |-> Strip(SubSeq(t, nl + 1, j - 1)),
           start |-> i - 1,
           end |-> j]

\* a search for matches that may overlap: each search starts one position
\* after the start of the match before
RECURSIVE FinditerOverlapped(_, _)
FinditerOverlapped(t, i) ==
  IF i > Len(t) THEN <<>>
  ELSE LET m == MatchAt(t, i)
       IN IF m.ok
          THEN <<[code |-> m.code, lang |-> m.lang, start |-> m.start, end |-> m.end]>>
                 \o FinditerOverlapped(t, i + 1)
          ELSE FinditerOverlapped(t, i + 1)

\* re.finditer: the matches from left to right, each search starting where the
\* match before ended
RECURSIVE Finditer(_, _)
Finditer(t, i) ==
  IF i > Len(t) THEN <<>>
  ELSE LET m == MatchAt(t, i)
       IN IF m.ok
          THEN <<[code |-> m.code, lang |-> m.lang, start |-> m.start, end |-> m.end]>>
                 \o Finditer(t, m.end + 1)
          ELSE Finditer(t, i + 1)

extract_code_blocks(text) ==
  LET code_blocks == Finditer(text, 1)
  IN IF code_blocks = <<>> /\ looks_like_python_code(text)
     THEN <<[code |-> Strip(text), lang |-> <<"python">>, start |-> 0, end |-> Len(text)]>>
     ELSE code_blocks

\* message[a:b]
Slice(t, a, b) == SubSeq(t, a + 1, b)

\* a part of the message the display has dealt with: its kind, its span, and the
\* widget made for it (none for prose that is only whitespace)
Segment(kind, a, b, text, shown) ==
  [kind |-> kind, start |-> a, end |-> b, text |-> text, shown |-> shown]

\* the loop of lines 2154-2190 over the blocks from number k on
RECURSIVE ShowBlocks(_, _, _, _)
ShowBlocks(message, code_blocks, k, current_pos) ==
  IF k > Len(code_blocks)
  THEN IF current_pos < Len(message)
       THEN LET text_after == Slice(message, current_pos, Len(message))
            IN <<Segment("prose", current_pos, Len(message), text_after,
                         Strip(text_after) # <<>>)>>
       ELSE <<>>
  ELSE LET b == code_blocks[k]
           text_before == Slice(message, current_pos, b.start)
       IN (IF b.start > current_pos
           THEN <<Segment("prose", current_pos, b.start, text_before,
                          Strip(text_before) # <<>>)>>
           ELSE <<>>)
          \o <<Segment("code", b.start, b.end, b.code, TRUE)>>
          \o ShowBlocks(message, code_blocks, k + 1, b.end)

\* the segments display_ai_message_with_code makes of a message
display_ai_message_with_code(message) ==
  LET code_blocks == extract_code_blocks(message)
  IN IF code_blocks # <<>> THEN ShowBlocks(message, code_blocks, 1, 0)
     ELSE <<Segment("prose", 0, Len(message), message, TRUE)>>

DisplayAtoms == {"~~~", "w", "\n", " ", "def "}

RECURSIVE Texts(_, _)
Texts(atoms, n) ==
  IF n = 0 THEN {<<>>}
  ELSE LET shorter == Texts(atoms, n - 1)
       IN shorter \cup {Append(t, a) : t \in shorter, a \in atoms}

NoView == [message |-> <<>>, segments |-> <<>>, done |-> FALSE]

\* finalize_streaming_message hands the final text to the display
Display ==
  /\ ~view.done
  /\ view' = [view EXCEPT !.segments = display_ai_message_with_code(view.message),
                          !.done = TRUE]
  /\ UNCHANGED <<folder, listbox, removed, disk, saver, loaded, origin, pvars>>

\* ---------------------------------------------------------------- sidebar
SideNames == {"conv_1", "conv_2"}

SidePaths ==
  {MainPath(n) : n \in SideNames} \cup {BackupPath(MainPath(n), 0) : n \in SideNames}

NoDelete ==
  [n |-> 0, name |-> "", raised |-> FALSE, folder0 |-> <<>>, folder1 |-> <<>>,
   rows0 |-> <<>>, rows1 |-> <<>>]

\* a directory without files, a sidebar without rows
InitD ==
  /\ folder = [p \in SidePaths |-> Absent]
  /\ listbox = <<>>
  /\ removed = NoDelete
  /\ view = NoView

\* the orders of the names in ns: os.listdir sorted by modification time
Orders(ns) ==
  {o \in [1..Cardinality(ns) -> ns] : \A i, j \in 1..Cardinality(ns) : i # j => o[i] # o[j]}

\* the loop of lines 1985-1991 over the files in order; a row of self.conversations
\* is the data with the name of the file it was read from, a row of the listbox
\* is the title it shows with that name
RECURSIVE LoadRows(_, _, _, _)
LoadRows(order, st, now, renameOk) ==
  IF order = <<>> THEN st
  ELSE LET p == MainPath(Head(order))
           r == load_conversation_file(st.folder, p, now, renameOk)
           st1 == IF r.raised THEN st
                  ELSE [st EXCEPT
                          !.folder = r.disk,
                          !.conversations = Append(@, [data |-> r.data, name |-> p.name]),
                          !.listbox = IF r.data.t = "dict"
                                      THEN Append(@, [title |-> r.data.d.title,
                                                     name |-> p.name])
                                      ELSE @]
       IN LoadRows(Tail(order), st1, now, renameOk)

\* load_conversations(), lines 1968-1991, on the directory d
load_conversations(d, order, now, renameOk) ==
  LoadRows(order, [folder |-> d, conversations |-> <<>>, listbox |-> <<>>], now, renameOk)

Listed(d) == {n \in SideNames : d[MainPath(n)].exists}

\* the refresh of the sidebar
Refresh ==
  /\ \E order \in Orders(Listed(folder)), renameOk \in BOOLEAN :
       LET r == load_conversations(folder, order, clock, renameOk)
       IN /\ folder' = r.folder
          /\ conversations' = r.conversations
          /\ listbox' = r.listbox
  /\ UNCHANGED <<removed, view, disk, saver, loaded, origin, env, model, is_loading,
                 is_generating, stop_generation_flag, response_queue,
                 current_conversation, current_conversation_id, streaming_text,
                 stream_chunks, stream_dirty, label, frame, task, loader,
                 after_queue, clock, files, stop_btn, model_btn, hist>>

RemoveAt(q, i) == SubSeq(q, 1, i - 1) \o SubSeq(q, i + 1, Len(q))

\* f"conversations/{conv_id}.json" for the id of a row
IdText(v) ==
  CASE v.t = "str" -> v.s
    [] v.t = "null" -> "None"
    [] v.t = "num" -> v.n
    [] OTHER -> "?"

\* self.current_conversation_id == conv_id
IdEq(cur, v) == IF cur = NoId THEN v = Null ELSE cur = v

\* delete_conversation with row index selected and the question answered yes
delete_conversation(index) ==
  /\ index \in 1..Len(listbox)
  /\ listbox' = RemoveAt(listbox, index)
  /\ LET bound == index <= Len(conversations)
         isDict == bound /\ conversations[index].data.t = "dict"
         conv_id == conversations[index].data.d.id
         file_path == MainPath(IdText(conv_id))
         there == isDict /\ file_path \in SidePaths /\ folder[file_path].exists
         current == isDict /\ IdEq(current_conversation_id, conv_id)
     IN /\ folder' = IF there THEN [folder EXCEPT ![file_path] = Absent] ELSE folder
        /\ conversations' = IF isDict THEN RemoveAt(conversations, index)
                            ELSE conversations
        /\ current_conversation' = IF current THEN <<>> ELSE current_conversation
        /\ current_conversation_id' = IF current THEN NoId ELSE current_conversation_id
        /\ label' = IF current THEN Destroyed(label) ELSE label
        /\ frame' = IF current THEN Destroyed(frame) ELSE frame
        /\ removed' = [n |-> 1, name |-> listbox[index].name, raised |-> ~isDict,
                       folder0 |-> folder, folder1 |-> folder',
                       rows0 |-> conversations, rows1 |-> conversations']
  /\ UNCHANGED <<view, disk, saver, loaded, origin, env, model, is_loading,
                 is_generating, stop_generation_flag, response_queue, streaming_text,
                 stream_chunks, stream_dirty, task, loader, after_queue, clock, files,
                 stop_btn, model_btn, hist>>

\* what the files of the directory hold: a conversation saved under its own
\* name, a copy of the other file, JSON that is no object, nothing, no JSON
SideContents(n) ==
  {Dump(Conversation(n, "a", <<Message("user", "a", "t0")>>, "t0")),
   Dump(Conversation(CHOOSE m \in SideNames : m # n, "b",
                     <<Message("user", "b", "t0")>>, "t0")),
   Dump(List(<<>>)),
   <<>>,
   <<Pn("}")>>}

\* the directories the window can open on
SideFolders ==
  {[p \in SidePaths |-> IF p.kind = "json" THEN c[p.name] ELSE Absent] :
     c \in {f \in [SideNames -> {Absent} \cup {File(b) : b \in UNION {SideContents(n) : n \in SideNames}}] :
              \A n \in SideNames : f[n].exists => f[n].bytes \in SideContents(n)}}

IdleSaver ==
  [pc |-> "idle", conversation |-> Null, old |-> Absent, atKill |-> Absent,
   result |-> "none"]

NotLoaded ==
  [n |-> 0, path |-> MainPath("conv_1"), raised |-> FALSE, data |-> Null,
   from |-> Null, found |-> Absent, repaired |-> {}]

InitS ==
  /\ disk = [p \in Paths |-> Absent]
  /\ saver = IdleSaver
  /\ loaded = NotLoaded
  /\ origin = [p \in Paths |-> Null]
  /\ InitD

\* the path of the conversation being saved
SavePath == MainPath(saver.conversation.d.id.s)

\* save_conversation(conversation) is called
StartSave(c) ==
  /\ saver.pc \in {"idle", "done", "killed"}
  /\ env.saves > 0
  /\ env' = [env EXCEPT !.saves = @ - 1]
  /\ saver' = [IdleSaver EXCEPT !.pc = "l115", !.conversation = c,
                                !.old = disk[MainPath(c.d.id.s)]]
  /\ loaded' = [NotLoaded EXCEPT !.repaired = loaded.repaired]
  /\ UNCHANGED <<disk, origin, dvars, model, is_loading, is_generating,
                 stop_generation_flag, response_queue, current_conversation,
                 current_conversation_id, conversations, streaming_text,
                 stream_chunks, stream_dirty, label, frame, task, loader,
                 after_queue, clock, files, stop_btn, model_btn, hist>>

SaveReturn(result) == [saver EXCEPT !.pc = "done", !.result = result]

\* line 115: open(temp_path, 'w')
SaveOpen ==
  /\ saver.pc = "l115"
  /\ \/ /\ disk' = [disk EXCEPT ![TempPath(SavePath)] = File(<<>>)]
        /\ saver' = [saver EXCEPT !.pc = "l116"]
     \/ /\ saver' = SaveReturn(FALSE)
        /\ disk' = disk
  /\ UNCHANGED <<loaded, origin, dvars, pvars>>

\* line 116: json.dump writes the text, or fails after a part of it
SaveDump ==
  /\ saver.pc = "l116"
  /\ \/ /\ disk' = [disk EXCEPT ![TempPath(SavePath)] = File(Dump(saver.conversation))]
        /\ saver' = [saver EXCEPT !.pc = "l119"]
     \/ /\ \E part \in Parts(Dump(saver.conversation)) :
             disk' = [disk EXCEPT ![TempPath(SavePath)] = File(part)]
        /\ saver' = SaveReturn(FALSE)
  /\ UNCHANGED <<loaded, origin, dvars, pvars>>

\* lines 119-120: if os.path.exists(file_path): os.remove(file_path)
SaveRemove ==
  /\ saver.pc = "l119"
  /\ \/ /\ disk' = [disk EXCEPT ![SavePath] = Absent]
        /\ origin' = [origin EXCEPT ![SavePath] = Null]
        /\ saver' = [saver EXCEPT !.pc = "l121"]
     \/ /\ disk[SavePath].exists
        /\ saver' = SaveReturn(FALSE)
        /\ UNCHANGED <<disk, origin>>
  /\ UNCHANGED <<loaded, dvars, pvars>>

\* line 121: os.rename(temp_path, file_path); line 123: return True
SaveRename ==
  /\ saver.pc = "l121"
  /\ \/ /\ disk' = [disk EXCEPT ![SavePath] = disk[TempPath(SavePath)],
                                ![TempPath(SavePath)] = Absent]
        /\ origin' = [origin EXCEPT ![SavePath] = saver.conversation]
        /\ saver' = SaveReturn(TRUE)
     \/ /\ saver' = SaveReturn(FALSE)
        /\ UNCHANGED <<disk, origin>>
  /\ UNCHANGED <<loaded, dvars, pvars>>

\* the process is killed during save_conversation; during json.dump a part of
\* the text is in the temp file
Kill ==
  /\ saver.pc \in {"l115", "l116", "l119", "l121"}
  /\ \E part \in Parts(Dump(saver.conversation)) :
       /\ saver.pc # "l116" => part = <<>>
       /\ disk' = IF saver.pc = "l116"
                  THEN [disk EXCEPT ![TempPath(SavePath)] = File(part)]
                  ELSE disk
  /\ saver' = [saver EXCEPT !.pc = "killed", !.atKill = disk[SavePath]]
  /\ UNCHANGED <<loaded, origin, dvars, pvars>>

\* load_conversation_file(file_path) is called on a file of the directory
LoadFile(p) ==
  /\ disk[p].exists
  /\ saver.pc \in {"idle", "done", "killed"}
  /\ \E renameOk \in BOOLEAN :
       LET r == load_conversation_file(disk, p, clock, renameOk)
           synthesized ==
             /\ disk[p].bytes # <<>>
             /\ Undecodable(disk[p].bytes) \/ ~json_loads(disk[p].bytes).ok
             /\ r.data = create_default_conversation(p, clock)
       IN /\ loaded' = [n |-> 1, path |-> p, raised |-> r.raised, data |-> r.data,
                        from |-> origin[p], found |-> disk[p],
                        repaired |-> IF synthesized
                                     THEN loaded.repaired \cup {disk[p].bytes}
                                     ELSE loaded.repaired]
          /\ disk' = r.disk
          /\ origin' = IF r.disk[p] = disk[p] THEN origin
                       ELSE [origin EXCEPT ![p] = Null]
  /\ UNCHANGED <<saver, dvars, pvars>>

\* the malformed contents a conversation file gets from outside the program (a
\* crash of the machine, an editor): texts that are no JSON, bytes that are
\* no text
CorruptContents == {<<Pn("}")>>, <<Pn("{"), StrTok("id")>>, <<BadBytes>>}

Corrupt(p, bytes) ==
  /\ env.corrupts > 0
  /\ env' = [env EXCEPT !.corrupts = @ - 1]
  /\ saver.pc \in {"idle", "done", "killed"}
  /\ disk' = [disk EXCEPT ![p] = File(bytes)]
  /\ origin' = [origin EXCEPT ![p] = Null]
  /\ UNCHANGED <<saver, loaded, dvars, model, is_loading, is_generating,
                 stop_generation_flag, response_queue, current_conversation,
                 current_conversation_id, conversations, streaming_text,
                 stream_chunks, stream_dirty, label, frame, task, loader,
                 after_queue, clock, files, stop_btn, model_btn, hist>>

SessionSteps ==
  \/ \E s \in Sessions : TaskBegin(s)
  \/ \E s \in Sessions : TaskResetFlag(s)
  \/ \E s \in Sessions : TaskPrompt(s)
  \/ \E s \in Sessions : TaskNextChunk(s)
  \/ \E s \in Sessions : TaskPutToken(s)
  \/ \E s \in Sessions : TaskAfterLoop(s)
  \/ \E s \in Sessions : TaskFinalize(s)
  \/ \E s \in Sessions : TaskSave(s)
  \/ \E s \in Sessions : TaskPutEnd(s)
  \/ \E s \in Sessions : TaskExcept(s)
  \/ \E s \in Sessions : TaskClearGenerating(s)
  \/ \E s \in Sessions : TaskClearFlag(s)

LoadSteps ==
  \/ load_model_dialog
  \/ on_model_callback
  \/ \E k \in Loads : LoadBegin(k)
  \/ \E k \in Loads : LoadModel(k)
  \/ \E k \in Loads : LoadEnd(k)

vars == <<pvars, svars>>

\* Spec: sessions, cancellation and the queue, with overlapping sessions
Init ==
  /\ InitS
  /\ InitP([sessions |-> MaxSessions, chunks |-> MaxChunks, loads |-> 1,
            ops |-> 0, saves |-> 0, corrupts |-> 0, ticks |-> 0, patient |-> FALSE,
            msgs |-> {<<"a">>, <<"Genere une image">>}, texts |-> {<<"a">>},
            outcomes |-> {"ok"}, raises |-> BOOLEAN])

Next ==
  \/ \E msg \in env.msgs, outcome \in env.outcomes : send_message(msg, outcome)
  \/ stop_generation
  \/ check_queue
  \/ SessionSteps
  \/ LoadSteps

Spec == Init /\ [][Next]_vars

\* SpecUI: the user also starts, clears and loads conversations, and the clock
\* advances, while sessions run
InitUI ==
  /\ InitS
  /\ InitP([sessions |-> UiSessions, chunks |-> UiChunks, loads |-> 1,
            ops |-> UiOps, saves |-> 0, corrupts |-> 0, ticks |-> UiTicks, patient |-> TRUE,
            msgs |-> {<<"a">>}, texts |-> {<<"a">>}, outcomes |-> {"ok"},
            raises |-> BOOLEAN])

NextUI ==
  \/ \E msg \in env.msgs, outcome \in env.outcomes : send_message(msg, outcome)
  \/ stop_generation
  \/ check_queue
  \/ new_conversation
  \/ clear_conversation
  \/ \E i \in 1..Len(conversations) : load_conversation(i)
  \/ Tick
  \/ SessionSteps
  \/ LoadSteps

SpecUI == InitUI /\ [][NextUI]_vars

\* SpecDup: sessions one after the other in one conversation, with every kind of
\* user message and of model output, and saves that can fail
InitDup ==
  /\ InitS
  /\ InitP([sessions |-> DupSessions, chunks |-> DupChunks, loads |-> 1,
            ops |-> 0, saves |-> 0, corrupts |-> 0, ticks |-> 0, patient |-> TRUE,
            msgs |-> UserMessages, texts |-> ChunkTexts,
            outcomes |-> SaveOutcomes, raises |-> BOOLEAN])

NextDup ==
  \/ \E msg \in env.msgs, outcome \in env.outcomes : send_message(msg, outcome)
  \/ stop_generation
  \/ check_queue
  \/ SessionSteps
  \/ LoadSteps

SpecDup == InitDup /\ [][NextDup]_vars

\* SpecLoad: the user loads a model again, around and during a session
InitLoad ==
  /\ InitS
  /\ InitP([sessions |-> LoadSessions, chunks |-> LoadChunks,
            loads |-> LoadLoads, ops |-> 0, saves |-> 0, corrupts |-> 0, ticks |-> 0,
            patient |-> FALSE, msgs |-> {<<"a">>}, texts |-> {<<"a">>},
            outcomes |-> {"ok"}, raises |-> BOOLEAN])

NextLoad ==
  \/ \E msg \in env.msgs, outcome \in env.outcomes : send_message(msg, outcome)
  \/ stop_generation
  \/ check_queue
  \/ SessionSteps
  \/ LoadSteps

SpecLoad == InitLoad /\ [][NextLoad]_vars

\* SpecOne: sessions one after the other, with the image request, exceptions at
\* every place, stops and failing saves
InitOne ==
  /\ InitS
  /\ InitP([sessions |-> OneSessions, chunks |-> OneChunks, loads |-> 1,
            ops |-> 0, saves |-> 0, corrupts |-> 0, ticks |-> 0, patient |-> TRUE,
            msgs |-> {<<"a">>, <<"Genere une image">>}, texts |-> {<<"a">>},
            outcomes |-> {"ok", "fail"}, raises |-> BOOLEAN])

NextOne ==
  \/ \E msg \in env.msgs, outcome \in env.outcomes : send_message(msg, outcome)
  \/ stop_generation
  \/ check_queue
  \/ SessionSteps
  \/ LoadSteps

SpecOne == InitOne /\ [][NextOne]_vars

\* SpecOneFair: SpecOne with threads that the scheduler lets run: a generation
\* thread that can take a step takes one
SpecOneFair == SpecOne /\ WF_vars(SessionSteps)

\* SpecSave: a session whose saves can fail, and the steps of
\* ConversationManager.save_conversation with their I/O failures
InitSave ==
  /\ InitS
  /\ InitP([sessions |-> SaveSessions, chunks |-> SaveChunks, loads |-> 1,
            ops |-> 0, saves |-> SaveSaves, corrupts |-> 0, ticks |-> 0,
            patient |-> TRUE, msgs |-> {<<"a">>}, texts |-> {<<"a">>},
            outcomes |-> {"ok", "fail"}, raises |-> BOOLEAN])

NextSave ==
  \/ \E msg \in env.msgs, outcome \in env.outcomes : send_message(msg, outcome)
  \/ stop_generation
  \/ check_queue
  \/ SessionSteps
  \/ LoadSteps
  \/ \E c \in SaveConvs : StartSave(c)
  \/ SaveOpen
  \/ SaveDump
  \/ SaveRemove
  \/ SaveRename

SpecSave == InitSave /\ [][NextSave]_vars

\* the id of a file an earlier run left in the directory
StoredId == 7

\* what load_conversation_file returns for the files of an earlier run: a
\* conversation of two messages under its first title, the default of a repaired
\* or empty file, a conversation whose messages were all dropped by the
\* cleaning, a conversation whose first message (the user's "b") was dropped
StoredRows ==
  {[id |-> StoredId, title |-> <<"b">>,
    messages |-> <<[role |-> "user", content |-> <<"b">>],
                   [role |-> "assistant", content |-> <<"a">>]>>],
   [id |-> StoredId, title |-> <<"Conversation reparee">>, messages |-> <<>>],
   [id |-> StoredId, title |-> <<"b">>, messages |-> <<>>],
   [id |-> StoredId, title |-> <<"b">>,
    messages |-> <<[role |-> "assistant", content |-> <<"a">>]>>]}

\* SpecOpen: the window opens on a directory that holds one conversation; the
\* user loads it, writes to it, starts and clears conversations
InitOpen ==
  /\ InitS
  /\ \E row \in StoredRows :
       InitRows([sessions |-> OpenSessions, chunks |-> OpenChunks, loads |-> 1,
                 ops |-> OpenOps, saves |-> 0, corrupts |-> 0, ticks |-> OpenTicks,
                 patient |-> TRUE, msgs |-> {<<"a">>}, texts |-> {<<"a">>},
                 outcomes |-> {"ok"}, raises |-> BOOLEAN], <<row>>)

SpecOpen == InitOpen /\ [][NextUI]_vars

\* SpecSide: the window opens on a directory of files of every kind; the user
\* deletes rows of the sidebar and the sidebar is refreshed
InitSide ==
  /\ disk = [p \in Paths |-> Absent]
  /\ saver = IdleSaver
  /\ loaded = NotLoaded
  /\ origin = [p \in Paths |-> Null]
  /\ removed = NoDelete
  /\ view = NoView
  /\ \E d \in SideFolders, renameOk \in BOOLEAN :
       \E order \in Orders(Listed(d)) :
         LET r == load_conversations(d, order, 0, renameOk)
         IN /\ folder = r.folder
            /\ listbox = r.listbox
            /\ InitRows([sessions |-> 0, chunks |-> 0, loads |-> 0, ops |-> 0,
                         saves |-> 0, corrupts |-> 0, ticks |-> 0, patient |-> TRUE,
                         msgs |-> {}, texts |-> {}, outcomes |-> {},
                         raises |-> BOOLEAN], r.conversations)

NextSide ==
  \/ Refresh
  \/ \E index \in 1..Len(listbox) : delete_conversation(index)

SpecSide == InitSide /\ [][NextSide]_vars

\* SpecShow: a final message of any text is displayed
InitShow ==
  /\ InitP([sessions |-> 0, chunks |-> 0, loads |-> 0, ops |-> 0, saves |-> 0,
            corrupts |-> 0, ticks |-> 0, patient |-> TRUE, msgs |-> {}, texts |-> {},
            outcomes |-> {}, raises |-> BOOLEAN])
  /\ disk = [p \in Paths |-> Absent]
  /\ saver = IdleSaver
  /\ loaded = NotLoaded
  /\ origin = [p \in Paths |-> Null]
  /\ folder = [p \in SidePaths |-> Absent]
  /\ listbox = <<>>
  /\ removed = NoDelete
  /\ \E message \in Texts(DisplayAtoms, ShowLen) :
       view = [message |-> message, segments |-> <<>>, done |-> FALSE]

NextShow == Display

SpecShow == InitShow /\ [][NextShow]_vars

\* SpecStore: the conversations directory: a file with any content, saves step
\* by step with I/O failures and a kill of the process, and loads
InitStore ==
  /\ InitP([sessions |-> 0, chunks |-> 0, loads |-> 0, ops |-> 0,
            saves |-> StoreSaves, corrupts |-> 0, ticks |-> StoreTicks, patient |-> TRUE,
            msgs |-> {}, texts |-> {}, outcomes |-> {}, raises |-> BOOLEAN])
  /\ \E f \in {Absent} \cup {File(bytes) : bytes \in FileContents} :
       disk = [p \in Paths |-> IF p.kind = "json" THEN f ELSE Absent]
  /\ saver = IdleSaver
  /\ loaded = NotLoaded
  /\ origin = [p \in Paths |-> Null]
  /\ InitD

NextStore ==
  \/ \E c \in SaveConvs : StartSave(c)
  \/ SaveOpen
  \/ SaveDump
  \/ SaveRemove
  \/ SaveRename
  \/ Kill
  \/ \E name \in StoreNames : LoadFile(MainPath(name))
  \/ Tick

SpecStore == InitStore /\ [][NextStore]_vars

\* SpecBackup: a file of the directory is corrupted from outside and loaded,
\* again and again, within one second and across seconds
InitBackup ==
  /\ InitP([sessions |-> 0, chunks |-> 0, loads |-> 0, ops |-> 0, saves |-> 0,
            corrupts |-> BackupCorrupts, ticks |-> StoreTicks, patient |-> TRUE,
            msgs |-> {}, texts |-> {}, outcomes |-> {}, raises |-> BOOLEAN])
  /\ \E f \in {Absent} \cup {File(bytes) : bytes \in FileContents} :
       disk = [p \in Paths |-> IF p.kind = "json" THEN f ELSE Absent]
  /\ saver = IdleSaver
  /\ loaded = NotLoaded
  /\ origin = [p \in Paths |-> Null]
  /\ InitD

NextBackup ==
  \/ \E name \in StoreNames, bytes \in CorruptContents : Corrupt(MainPath(name), bytes)
  \/ \E name \in StoreNames : LoadFile(MainPath(name))
  \/ Tick

SpecBackup == InitBackup /\ [][NextBackup]_vars

\* ------------------------------------------------------------------ claims
Returned_(s) == task[s].pc = "done"
InQueue(s) == \E i \in 1..Len(response_queue) : response_queue[i].sid = s

\* C1: at most one generation session is active at a time: a send_message
\* issued while an earlier generation thread is still running is rejected, so two
\* generation threads never run at the same time.
C1_OneSessionAtATime == Cardinality({s \in Sessions : Running(s)}) <= 1

\* C2: once stop_generation has set the cancel flag while a session is
\* streaming, that session puts no token after the next chunk boundary, and
\* exactly one error message of that session is delivered to the consumer (here:
\* it has been delivered once the thread has returned and the queue is drained).
C2_Cancellation ==
  \A s \in Sessions :
    hist[s].cancelled =>
      /\ ~hist[s].tokAfter
      /\ (Returned_(s) /\ ~InQueue(s)) => hist[s].errSeen = 1

\* C3: a session puts at most one terminal message (stream_end or error) on
\* the queue, and no message after its terminal message.
C3_OneTerminal ==
  \A s \in Sessions : hist[s].nTerm <= 1 /\ ~hist[s].afterTerm

Iota(n) == [i \in 1..n |-> i]

\* C4: for a session that starts with an empty display buffer and puts N
\* tokens followed by one terminal message, the tokens are appended to
\* streaming_text once each and in the order they were put, and once check_queue
\* has handled the terminal message every one of them has been appended.
C4_StreamDelivery ==
  \A s \in Sessions :
    (hist[s].startedEmpty /\ hist[s].nTerm <= 1 /\ ~hist[s].afterTerm) =>
      /\ Len(hist[s].shown) <= hist[s].nTok
      /\ hist[s].shown = Iota(Len(hist[s].shown))
      /\ hist[s].termSeen = 1 => hist[s].shown = Iota(hist[s].nTok)

Last(q) == q[Len(q)]

\* C8: when the finalized response equals, ignoring case and surrounding
\* whitespace, the last assistant message of the conversation, the fallback
\* snippet is what the session appends, persists and sends as stream_end, and the
\* duplicate text itself is not appended.
C8_DuplicateSuppressed ==
  \A s \in Sessions :
    hist[s].dupOf # <<>> =>
      /\ hist[s].appended = <<generate_statistics_code>>
      /\ hist[s].appended[1] # hist[s].dupOf[1]
      /\ \A i \in 1..Len(hist[s].saved) :
           Last(hist[s].saved[i].messages).content = generate_statistics_code
      /\ \A i \in 1..Len(hist[s].ended) : hist[s].ended[i] = generate_statistics_code

\* C5: when check_queue acts on a terminal message, the tokens of that
\* session drained before it have been flushed into streaming_text, for
\* stream_end and for error alike.
C5_FlushBeforeTerminal == \A s \in Sessions : ~hist[s].early

\* C10: model loading and generation are mutually exclusive: no
\* load_model_thread runs while a generate_response_streaming thread runs.
C10_LoadExcludesGeneration ==
  ~(\E k \in Loads, s \in Sessions : Loading(k) /\ Running(s))

\* a mapping with non-null id, non-null title and messages a sequence
StructurallyValid(data) ==
  /\ data.t = "dict"
  /\ {"id", "title", "messages"} \subseteq DOMAIN data.d
  /\ data.d.id.t # "null"
  /\ data.d.title.t # "null"
  /\ data.d.messages.t = "list"

\* every message has role, content and a string timestamp
ValidConversation(c) ==
  /\ StructurallyValid(c)
  /\ \A i \in 1..Len(c.d.messages.l) :
       LET msg == c.d.messages.l[i]
       IN IsMessage(msg) /\ "timestamp" \in DOMAIN msg.d /\ msg.d.timestamp.t = "str"

\* C6: when the process is killed during save_conversation, a destination file
\* that existed before the save still exists and holds the complete old or
\* the complete new content.
C6_SaveAtomicity ==
  (saver.pc = "killed" /\ saver.old.exists) =>
    saver.atKill \in {saver.old, File(Dump(saver.conversation))}

\* C7: whatever the file holds, load_conversation_file raises nothing and
\* returns a mapping with non-null id, non-null title and a list of messages.
C7_RepairTotality ==
  loaded.n = 1 => ~loaded.raised /\ StructurallyValid(loaded.data)

\* C9: load_conversation_file of a file that a successful save_conversation(c)
\* wrote, c structurally valid, returns c's messages, in order and content.
C9_RoundTrip ==
  (loaded.n = 1 /\ loaded.from.t = "dict" /\ ValidConversation(loaded.from)) =>
    /\ ~loaded.raised
    /\ loaded.data.t = "dict"
    /\ "messages" \in DOMAIN loaded.data.d
    /\ loaded.data.d.messages = loaded.from.d.messages

\* a two-message conversation was saved over an older file and loaded back,
\* later than the time of its timestamps
C9_Witness ==
  /\ loaded.n = 1
  /\ loaded.from.t = "dict"
  /\ ValidConversation(loaded.from)
  /\ Len(loaded.from.d.messages.l) = 2
  /\ saver.old.exists
  /\ clock > 0
  /\ loaded.data.d.messages = loaded.from.d.messages

\* C11: while a generate_response_streaming thread is running nothing changes
\* current_conversation: the thread does not append to it, and neither
\* new_conversation, load_conversation nor clear_conversation replaces it.
C11_ConversationOwnedByForeground ==
  [][(\E s \in Sessions : Running(s)) => current_conversation' = current_conversation]_vars

\* C12: every malformed content for which a load made a fresh conversation is
\* held by a backup file of the directory, whatever corruptions and loads
\* followed: no offending content and no earlier backup is overwritten or lost.
C12_BackupsKept ==
  \A bytes \in loaded.repaired :
    \E p \in Paths : p.kind = "backup" /\ disk[p] = File(bytes)

\* the other sessions' threads are not between their lines 924 and 1010
OthersQuiet(s) ==
  \A x \in Sessions \ {s} : task[x].pc \in {"idle", "start", "done"}

\* C13: an exception raised in generate_response_streaming (by the model call,
\* by a chunk, by the persistence) does not leave the thread: the thread puts an
\* error message on the queue, clears is_generating and returns.
C13_ExceptionsBecomeErrors ==
  \A s \in Sessions :
    hist[s].raised =>
      /\ task[s].pc \in {"except", "l1010", "l1011", "done"}
      /\ task[s].pc # "except" => hist[s].converted
      /\ (task[s].pc \in {"l1011", "done"} /\ OthersQuiet(s)) => ~is_generating

\* the persistence raised after a token was put, the error message was put and
\* the thread has returned
C13_Witness ==
  \E s \in Sessions :
    /\ hist[s].raised
    /\ hist[s].appended # <<>>
    /\ hist[s].nTok > 0
    /\ hist[s].converted
    /\ task[s].pc = "done"
    /\ ~is_generating

\* no generation thread is alive and is_generating is False
Idle == ~is_generating /\ \A x \in Sessions : ~Running(x)

\* C14: every started session comes back to Idle, whether the stream ends, the
\* user stops it or the model raises; and no thread is started again by the
\* program itself: a thread starts only in a send_message of the user, and a
\* thread that has returned stays returned.
C14_SessionsReturnToIdle ==
  /\ \A s \in Sessions : (task[s].pc = "start") ~> (task[s].pc = "done" /\ Idle)
  /\ [][\A s \in Sessions :
          /\ task[s].pc = "done" => task'[s].pc = "done"
          /\ (task[s].pc = "idle" /\ task'[s].pc # "idle") =>
               env'.sessions = env.sessions - 1]_vars

\* a session that the user stopped while it streamed has returned, and so has
\* nothing else to run
C14_Witness ==
  \E s \in Sessions : hist[s].cancelled /\ task[s].pc = "done" /\ Idle

\* the number of ("error", ...) messages session s has put on the queue
ErrorsPut(s) == hist[s].nTerm - Len(hist[s].ended)

\* C15: a session that put an Error on the queue has appended no assistant
\* message to current_conversation and has written no file.
C15_ErrorLeavesHistory ==
  \A s \in Sessions :
    ErrorsPut(s) > 0 => hist[s].appended = <<>> /\ hist[s].saved = <<>>

\* C15 for the sessions the user stopped: the Error is the one of line 972
C15_StoppedLeavesHistory ==
  \A s \in Sessions :
    (ErrorsPut(s) > 0 /\ ~hist[s].raised) => hist[s].appended = <<>>

\* the save of session s did not write the file, and nothing raised in s
SaveFailed(s) ==
  /\ task[s].pc = "done"
  /\ hist[s].appended # <<>>
  /\ hist[s].saved = <<>>
  /\ ~hist[s].raised

\* C16: ConversationManager.save_conversation returns to its caller with True or
\* False: True when the file holds the whole new text and the temp file is gone,
\* False when the destination was not replaced (it is the old file, or removed).
\* A session whose save failed keeps its assistant message in
\* current_conversation and has put the End message with that text.
C16_SaveNeverRaises ==
  /\ saver.pc = "done" =>
       /\ saver.result \in BOOLEAN
       /\ saver.result = TRUE =>
            /\ disk[SavePath] = File(Dump(saver.conversation))
            /\ ~disk[TempPath(SavePath)].exists
       /\ saver.result = FALSE => disk[SavePath] \in {saver.old, Absent}
  /\ \A s \in Sessions :
       SaveFailed(s) =>
         /\ hist[s].ended = hist[s].appended
         /\ \E i \in 1..Len(current_conversation) :
              current_conversation[i] =
                [role |-> "assistant", content |-> hist[s].appended[1]]

\* a save of the manager has failed after it removed the old file, and a session
\* whose save failed has returned after its End message
C16_Witness ==
  /\ saver.pc = "done"
  /\ saver.result = FALSE
  /\ \E s \in Sessions : SaveFailed(s) /\ hist[s].ended # <<>>

\* the user typed an image request, with a capital letter
IsImageRequest(t) == \E i \in 1..Len(t) : t[i] = "Genere une image"

\* C17: a session whose user message holds an image keyword, in whatever case,
\* never calls create_completion, puts no stream_token, puts no error, and puts
\* one stream_end, with the fixed explanatory text, before it returns.
C17_ImagePreemption ==
  \A s \in Sessions :
    IsImageRequest(hist[s].msg) =>
      /\ ~hist[s].called
      /\ hist[s].nTok = 0
      /\ hist[s].nTerm = Len(hist[s].ended)
      /\ hist[s].ended \in {<<>>, <<ImageResponse>>}
      /\ task[s].pc = "done" => hist[s].ended = <<ImageResponse>>

\* an image request has been answered and its thread has returned
C17_Witness ==
  \E s \in Sessions :
    /\ IsImageRequest(hist[s].msg)
    /\ task[s].pc = "done"
    /\ hist[s].ended = <<ImageResponse>>
    /\ hist[s].termSeen = 1

\* the send_message of session s began a conversation: current_conversation was
\* empty, after the start of the program, a new_conversation or a
\* clear_conversation
Created(s) == hist[s].newId # NoId

\* C18: two conversations never get the same id, whatever the user does and
\* however the clock advances between their first messages.
C18_UniqueIds ==
  \A s, x \in Sessions :
    (s # x /\ Created(s) /\ Created(x)) => hist[s].newId # hist[x].newId

\* C19: the id of the current conversation changes only when the user starts,
\* clears or loads a conversation: a send_message and a save of a conversation
\* that has an id, its own or the one read from its file, keep that id.
C19_IdStable ==
  [][(current_conversation_id # NoId /\ env'.ops = env.ops) =>
       current_conversation_id' = current_conversation_id]_vars

\* C20: a save never changes the title of a conversation that has a file: the
\* file written for an id holds the title the file of that id held before.
C20_TitleKept ==
  [][\A i \in 1..Len(files), j \in 1..Len(files') :
       files[i].id = files'[j].id => files'[j].title = files[i].title]_vars

\* the rows of self.conversations read from the file called name
RowsOf(rows, name) == SelectSeq(rows, LAMBDA row : row.name = name)

\* C21: a delete_conversation of a row raises nothing, leaves no file and no
\* entry of self.conversations for the conversation the row showed, and leaves
\* every other file and every other entry as it was.
C21_DeleteRemovesBoth ==
  removed.n = 1 =>
    /\ ~removed.raised
    /\ ~removed.folder1[MainPath(removed.name)].exists
    /\ RowsOf(removed.rows1, removed.name) = <<>>
    /\ \A p \in SidePaths : p # MainPath(removed.name) => removed.folder1[p] = removed.folder0[p]
    /\ \A n \in SideNames \ {removed.name} :
         RowsOf(removed.rows1, n) = RowsOf(removed.rows0, n)

\* C22: the segments the display makes of a message follow each other without
\* gap or overlap from position 0 to the end of the message; a prose segment
\* holds the text of its span; and a span that gets no widget holds only
\* whitespace.
C22_SegmentsCoverMessage ==
  view.done =>
    LET segs == view.segments
        n == Len(segs)
    IN /\ view.message # <<>> => n > 0 /\ segs[1].start = 0 /\ segs[n].end = Len(view.message)
       /\ \A k \in 1..n : segs[k].start < segs[k].end \/ view.message = <<>>
       /\ \A k \in 1..(n - 1) : segs[k + 1].start = segs[k].end
       /\ \A k \in 1..n :
            segs[k].kind = "prose" =>
              segs[k].text = Slice(view.message, segs[k].start, segs[k].end)
       /\ \A k \in 1..n :
            ~segs[k].shown =>
              \A i \in (segs[k].start + 1)..segs[k].end : IsSpace(view.message[i])

\* a message with prose, a code block with a language and whitespace after it
\* has been displayed
C22_Witness ==
  /\ view.done
  /\ Len(view.segments) >= 3
  /\ \E k \in 1..Len(view.segments) : view.segments[k].kind = "prose" /\ view.segments[k].shown
  /\ \E k \in 1..Len(view.segments) : ~view.segments[k].shown
  /\ \E k \in 1..Len(view.segments) :
       view.segments[k].kind = "code" /\ view.segments[k].start > 0

\* C23: a check_queue whose last drained message is a terminal message, End or
\* Error, leaves the display buffer empty, no pending chunks and no live
\* in-flight label or frame.
C23_TerminalResets ==
  [][(/\ response_queue # <<>>
      /\ response_queue' = <<>>
      /\ Last(response_queue).type # "stream_token") =>
       /\ streaming_text' = <<>>
       /\ stream_chunks' = <<>>
       /\ label' # "alive"
       /\ frame' # "alive"]_vars

\* the lines of a prompt that render messages: all but the instruction and the
\* closing "Assistant:"
MessageLines(prompt) ==
  SelectSeq(prompt, LAMBDA l : l.role \in {"Utilisateur", "Assistant"} /\ l.content # <<>>)

\* C24: for a message sent in a conversation that already has messages, the
\* prompt handed to create_completion renders the last 6 of those earlier
\* messages in their order and then the new message, once.
C24_PromptHistory ==
  \A s \in Sessions :
    (task[s].prompt # <<>> /\ hist[s].called /\ task[s].before # <<>>) =>
      MessageLines(task[s].prompt) =
        [i \in 1..Len(LastN(task[s].before, 6)) |->
           PromptLine(IF LastN(task[s].before, 6)[i].role = "user" THEN "Utilisateur"
                      ELSE "Assistant",
                      LastN(task[s].before, 6)[i].content)]
          \o <<PromptLine("Utilisateur", task[s].user_message)>>

\* the assistant messages of a conversation, in order
AssistantMessages(conv) == SelectSeq(conv, LAMBDA m : m.role = "assistant")

\* C25: no two assistant messages that follow each other in the conversation
\* have the same content, ignoring case and surrounding whitespace.
C25_NoRepeatedAnswer ==
  LET ai == AssistantMessages(current_conversation)
  IN \A i \in 1..(Len(ai) - 1) :
       Lower(Strip(ai[i].content)) # Lower(Strip(ai[i + 1].content))

\* C26: every file a session wrote after its append has the id of the
\* conversation its user message was sent in and holds that user message before
\* the reply; and no file begins with an assistant message.
C26_ReplyInItsConversation ==
  /\ \A s \in Sessions :
       \A k \in 1..Len(hist[s].saved) :
         LET sv == hist[s].saved[k]
             n == Len(sv.messages)
         IN /\ sv.id = hist[s].usedId
            /\ n >= 2
            /\ sv.messages[n - 1] = [role |-> "user", content |-> hist[s].msg]
  /\ \A i \in 1..Len(files) :
       files[i].messages # <<>> => files[i].messages[1].role = "user"

\* C27: the text of every stream_end a session has put is the content of an
\* assistant message that session appended to the conversation.
C27_EndIsInHistory ==
  \A s \in Sessions :
    \A i \in 1..Len(hist[s].ended) :
      \E k \in 1..Len(hist[s].appended) : hist[s].appended[k] = hist[s].ended[i]

\* row i of the sidebar shows self.conversations[i]
Aligned ==
  /\ Len(listbox) = Len(conversations)
  /\ \A i \in 1..Len(listbox) :
       /\ listbox[i].name = conversations[i].name
       /\ conversations[i].data.t = "dict"
       /\ listbox[i].title = conversations[i].data.d.title

\* C28: as load_conversations leaves them (no row deleted since), the sidebar
\* and self.conversations have the same length and row i shows the title of
\* self.conversations[i], whatever the files of the directory hold.
C28_SidebarAligned == removed.n = 0 => Aligned

\* C29: when save_conversation has returned False and nothing has touched the
\* directory since, a destination file that existed before the call is still
\* there with its old content.
C29_FailedSaveKeepsFile ==
  (saver.pc = "done" /\ saver.result = FALSE /\ saver.old.exists /\ loaded.n = 0) =>
    disk[SavePath] = saver.old

\* a step in which session s puts the Error of line 972 on the queue
PutsStopped(s) ==
  /\ Len(response_queue') = Len(response_queue) + 1
  /\ LET m == response_queue'[Len(response_queue')]
     IN m.type = "error" /\ m.data = StoppedByUser /\ m.sid = s

\* C30: a cancel request stays with the sessions that were generating when
\* stop_generation was called: a stop_generation while no session is
\* generating changes nothing (is_generating is down then); the flag is
\* false when a session has executed the first two lines of
\* generate_response_streaming, and still false when it enters the chunk loop
\* unless a stop_generation found this session generating; and a session puts
\* the stopped-by-user Error only if a stop_generation found it generating.
C30_CancelScoped ==
  [][/\ (stop_generation /\ \A s \in Sessions : ~Generating(s)) => UNCHANGED vars
     /\ \A s \in Sessions :
          /\ (task[s].pc = "l925" /\ task'[s].pc = "l926") => ~stop_generation_flag'
          /\ (task[s].pc = "l926" /\ task'[s].pc = "loop" /\ stop_generation_flag)
               => hist[s].stopped
          /\ PutsStopped(s) => hist[s].stopped]_vars

\* a stopped session has ended with the Error of line 972 and a later session,
\* never stopped, is streaming with the flag down
C30_Witness ==
  \E s, t \in Sessions :
    /\ s # t
    /\ hist[s].stopped /\ ~hist[s].raised /\ ErrorsPut(s) > 0 /\ task[s].pc = "done"
    /\ ~hist[t].stopped /\ task[t].pc = "loop" /\ task[t].nchunks > 0
    /\ ~stop_generation_flag

====
